---- MODULE Spec2Model ----
(***************************************************************************)
(* Sign-up form of apps/remix: the validation schema ZSignUpFormSchema and *)
(* the submission workflow of the SignUpForm component (form onSubmit      *)
(* handler, Complete button, onFormSubmit).                                *)
(*                                                                         *)
(* Text is modelled as a sequence of one-character strings, so that        *)
(* String.prototype.includes, split and trim are computed, not assumed.    *)
(***************************************************************************)
EXTENDS Integers, Sequences, FiniteSets, TLC

VARIABLES
  mounted,      \* the mount effect (email from the URL hash) has run
  values,       \* react-hook-form's field values: name, email, password, signature
  resolved,     \* result of the last run of zodResolver(ZSignUpFormSchema)
  isValid,      \* form.formState.isValid
  isSubmitting, \* form.formState.isSubmitting
  attempts,     \* the onFormSubmit invocations still running, in the order they started
  finished,     \* the onFormSubmit invocation that returned last, if any
  signUpCalls,  \* how many times authClient.emailPassword.signUp was called
  lastSubmit,   \* what the most recent submit event or click led to
  location      \* the router's current path

vars ==
  <<mounted, values, resolved, isValid, isSubmitting, attempts, finished, signUpCalls,
    lastSubmit, location>>

---------------------------------------------------------------------------
(* Bounds *)

\* generic candidate texts are all texts over Alphabet of at most this length
MaxLen == 2
\* authClient.emailPassword.signUp is called at most this many times in one
\* run of the form
MaxAttempts == 3

---------------------------------------------------------------------------
(* Text *)

Empty == << >>

\* an optional text (string | undefined) and a nullable text (string | null)
Undefined == [defined |-> FALSE, text |-> Empty]
Defined(t) == [defined |-> TRUE, text |-> t]
Null == [null |-> TRUE, text |-> Empty]
NonNull(t) == [null |-> FALSE, text |-> t]

Alphabet == {"a", " ", "@"}

RECURSIVE Texts(_)
Texts(n) ==
  IF n = 0 THEN {Empty}
  ELSE LET shorter == Texts(n - 1)
       IN shorter \cup {Append(t, c) : t \in {s \in shorter : Len(s) = n - 1}, c \in Alphabet}

UpperChars == {"A", "L", "X", "Z", "Q", "B"}
LowerChars == {"a", "b", "n", "e", "o", "x", "c", "m", "w", "r", "t", "y", "u", "z", "s", "i", "g", "d"}
DigitChars == {"1", "3", "9"}
SpecialChars == {"!", "#", "@", "."}
WhiteSpace == {" "}
LetterChars == UpperChars \cup LowerChars

AnnLee == <<"A", "n", "n", " ", "L", "e", "e">>
AnnEmail == <<"a", "n", "n", "@", "x", ".", "c", "o", "m">>
PwX9annLee == <<"X", "9", "!", "a", "n", "n", "L", "e", "e">>
PwWithAnnLee == <<"Z", "z", "1", "!", "A", "n", "n", " ", "L", "e", "e">>
PwStrong == <<"Q", "w", "3", "#", "r", "t", "y", "u", "Z">>
PaddedBo == <<" ", "B", "o">>
BoEmail == <<"b", "o", "@", "x", ".", "c", "o", "m">>
NoLocalEmail == <<"@", "x", ".", "c", "o", "m">>
BadEmail == <<"b", "a", "d">>
Sig == <<"s", "i", "g">>

\* String.prototype.includes: the empty text is contained in every text
Includes(s, t) ==
  \E i \in 0..(Len(s) - Len(t)) : SubSeq(s, i + 1, i + Len(t)) = t

\* String.prototype.split(sep)[0]: the text before the first sep, or all of it
SplitFirst(s, sep) ==
  IF \E i \in 1..Len(s) : s[i] = sep
  THEN LET k == CHOOSE i \in 1..Len(s) : s[i] = sep /\ \A j \in 1..(i - 1) : s[j] # sep
       IN SubSeq(s, 1, k - 1)
  ELSE s

\* the text after the first sep (empty when there is none)
AfterFirst(s, sep) ==
  IF \E i \in 1..Len(s) : s[i] = sep
  THEN LET k == CHOOSE i \in 1..Len(s) : s[i] = sep /\ \A j \in 1..(i - 1) : s[j] # sep
       IN SubSeq(s, k + 1, Len(s))
  ELSE Empty

\* String.prototype.trim
RECURSIVE Trim(_)
Trim(s) ==
  IF s = Empty THEN s
  ELSE IF s[1] \in WhiteSpace THEN Trim(Tail(s))
  ELSE IF s[Len(s)] \in WhiteSpace THEN Trim(SubSeq(s, 1, Len(s) - 1))
  ELSE s

---------------------------------------------------------------------------
(* ZSignUpFormSchema *)

MsgName == "Please enter a valid name."
MsgEmail == "Invalid email"
MsgEmailMin == "String must contain at least 1 character(s)"
MsgPersonal == "Password should not be common or based on personal information"

Issue(path, message) == [path |-> path, message |-> message]

\* z.string().trim().min(1): the value is trimmed first, then measured
NameIssues(name) ==
  IF Len(Trim(name)) >= 1 THEN {} ELSE {Issue("name", MsgName)}

\* the domain part accepted by z.string().email(): labels of letters, digits
\* and "-", each starting with a letter or digit, then a top-level label of
\* two or more letters
DomainOk(d) ==
  /\ \E p \in 2..(Len(d) - 2) :
       /\ d[p] = "."
       /\ \A j \in (p + 1)..Len(d) : d[j] \in LetterChars
  /\ d[1] \in LetterChars \cup DigitChars
  /\ \A j \in 1..Len(d) : d[j] \in LetterChars \cup DigitChars \cup {"-", "."}
  /\ \A j \in 1..(Len(d) - 1) : d[j] = "." => d[j + 1] \in LetterChars \cup DigitChars

\* the local part accepted by z.string().email()
LocalOk(l) ==
  /\ Len(l) >= 1
  /\ \A j \in 1..Len(l) : l[j] \in LetterChars \cup DigitChars \cup {"_", "'", "+", "-", "."}
  /\ l[1] # "."
  /\ l[Len(l)] \in LetterChars \cup DigitChars \cup {"_", "+", "-"}
  /\ \A j \in 1..(Len(l) - 1) : ~(l[j] = "." /\ l[j + 1] = ".")

IsEmail(s) ==
  /\ \E i \in 1..Len(s) : s[i] = "@"
  /\ LocalOk(SplitFirst(s, "@"))
  /\ Len(AfterFirst(s, "@")) >= 4
  /\ DomainOk(AfterFirst(s, "@"))

\* z.string().email().min(1)
EmailIssues(email) ==
  (IF IsEmail(email) THEN {} ELSE {Issue("email", MsgEmail)})
    \cup (IF Len(email) >= 1 THEN {} ELSE {Issue("email", MsgEmailMin)})

\* ZPasswordSchema, the password policy of the auth router
ZPasswordSchema(password) ==
  (IF \E i \in 1..Len(password) : password[i] \in UpperChars
     THEN {} ELSE {Issue("password", "One uppercase character")})
    \cup (IF \E i \in 1..Len(password) : password[i] \in LowerChars
            THEN {} ELSE {Issue("password", "One lowercase character")})
    \cup (IF \E i \in 1..Len(password) : password[i] \in DigitChars
            THEN {} ELSE {Issue("password", "One number")})
    \cup (IF \E i \in 1..Len(password) : password[i] \in SpecialChars
            THEN {} ELSE {Issue("password", "One special character is required")})
    \cup (IF Len(password) >= 8
            THEN {} ELSE {Issue("password", "Must be at least 8 characters in length")})
    \cup (IF Len(password) <= 72
            THEN {} ELSE {Issue("password", "Cannot be more than 72 bytes in length")})

\* the object's own parse: each field's checks; the parsed data carries the
\* trimmed name
ObjectIssues(v) ==
  NameIssues(v.name) \cup EmailIssues(v.email) \cup ZPasswordSchema(v.password)

ObjectData(v) == [v EXCEPT !.name = Trim(v.name)]

\* the predicate without its test of the email's local part
RefinePredicateNameOnly(data) ==
  ~Includes(data.password, data.name)

\* the .refine predicate, applied to the parsed data
RefinePredicate(data) ==
  /\ ~Includes(data.password, data.name)
  /\ ~Includes(data.password, SplitFirst(data.email, "@"))

\* the issue a failed refinement reports: message and path: ['password']
RefineIssue == Issue("password", MsgPersonal)

\* a refinement that would run only when no field check failed
RefineRunsOnlyWhenClean(v) == ObjectIssues(v) = {}

\* A refinement runs on the object's parsed data whenever every field has
\* its type (a failed check such as min or email leaves the parse "dirty",
\* not "aborted"); all fields of the form are strings, so it always runs.
RefineRuns(v) == TRUE

\* ZSignUpFormSchema.safeParse
Validate(v) ==
  LET data == ObjectData(v)
      issues == ObjectIssues(v)
                  \cup (IF RefineRuns(v) /\ ~RefinePredicate(data) THEN {RefineIssue} ELSE {})
  IN [issues |-> issues, data |-> data]

SchemaValid(v) == Validate(v).issues = {}

\* zodResolver(ZSignUpFormSchema): the issues it reports as errors
Unresolved == [ran |-> FALSE, issues |-> {}]

Resolver(v) == [ran |-> TRUE, issues |-> Validate(v).issues]

\* the values zodResolver hands to handleSubmit's callback: the parsed data
ResolverValues(v) == Validate(v).data

---------------------------------------------------------------------------
(* SignUpForm: the form state and the submission workflow *)

FormNames == {Empty, PaddedBo}
FormEmails == {Empty, BoEmail}
FormPasswords == {Empty, PwStrong}
FormSignatures == {Empty, Sig}
\* what params.get('email') of the URL hash can give
HashEmails == {Null, NonNull(Empty), NonNull(BoEmail), NonNull(BadEmail)}

\* AppErrorCode values a rejected signUp call can carry
ErrorCodes == {"SIGNUP_DISABLED", "ALREADY_EXISTS", "INVALID_REQUEST", "UNKNOWN_ERROR"}

\* a sequence without its i-th element
RemoveAt(seq, i) == SubSeq(seq, 1, i - 1) \o SubSeq(seq, i + 1, Len(seq))

\* useForm defaultValues; the route passes no initialEmail
DefaultValues ==
  [name |-> Empty, email |-> Empty, password |-> Empty, signature |-> Defined(Empty)]

MsgSignupDisabled == "Signups are disabled."
MsgAlreadyExists == "User with this email already exists. Please use a different email address."
MsgInvalidRequest == "We were unable to create your account. Please review the information you provided and try again."
MsgRegistered == "You have successfully registered. Please verify your account by clicking on the link you received in the email."

\* signupErrorMessages
signupErrorMessages ==
  [SIGNUP_DISABLED |-> MsgSignupDisabled,
   ALREADY_EXISTS |-> MsgAlreadyExists,
   INVALID_REQUEST |-> MsgInvalidRequest]

\* AppError.parseError(err).code
ParseErrorCode(err) == err.code

\* the lookup without its ?? fallback
ErrorMessageNoFallback(code) ==
  IF code \in DOMAIN signupErrorMessages THEN signupErrorMessages[code] ELSE ""

\* signupErrorMessages[error.code] ?? signupErrorMessages.INVALID_REQUEST
ErrorMessage(code) ==
  IF code \in DOMAIN signupErrorMessages
  THEN signupErrorMessages[code]
  ELSE signupErrorMessages["INVALID_REQUEST"]

NavigateEffect == [kind |-> "navigate", to |-> "/unverified-account"]

SuccessToast ==
  [kind |-> "toast", variant |-> "default",
   title |-> "Registration Successful", description |-> MsgRegistered]

DestructiveToast(err) ==
  [kind |-> "toast", variant |-> "destructive",
   title |-> "An error occurred", description |-> ErrorMessage(ParseErrorCode(err))]

CaptureEffect(payload) ==
  [kind |-> "capture", event |-> "App: User Sign Up", email |-> payload.email]

\* the argument of authClient.emailPassword.signUp: signature || null
SignUpPayload(v) ==
  [name |-> v.name,
   email |-> v.email,
   password |-> v.password,
   signature |-> IF v.signature.defined /\ v.signature.text # Empty
                 THEN NonNull(v.signature.text)
                 ELSE Null]

\* onFormSubmit up to its first await: the signUp call is made
StartAttempt(via, v) ==
  [via |-> via, payload |-> SignUpPayload(v), pc |-> "signUp",
   outcome |-> "pending", error |-> "", effects |-> << >>]

\* the capture issued before the toast
AfterNavigateSwapped(att) == <<CaptureEffect(att.payload), SuccessToast>>

\* what the try block does once the awaited navigate has resolved
AfterNavigate(att) == <<SuccessToast, CaptureEffect(att.payload)>>

\* a submission state that is never reset
SubmittingAfterStuck(att) == isSubmitting

\* form.handleSubmit sets isSubmitting to false when its callback has
\* returned; the form's own onSubmit handler never touches it
SubmittingAfter(att) == IF att.via = "click" THEN FALSE ELSE isSubmitting

\* a handler that submits without the test
FormStateIsValidUnchecked == TRUE

\* the form onSubmit handler's test: form.formState.isValid
FormStateIsValid == isValid

Init ==
  /\ mounted = FALSE
  /\ values = DefaultValues
  /\ resolved = Unresolved
  /\ isValid = FALSE
  /\ isSubmitting = FALSE
  /\ attempts = << >>
  /\ finished = << >>
  /\ signUpCalls = 0
  /\ lastSubmit = "none"
  /\ location = "/signup"

\* the form is on screen and takes user events
OnScreen == mounted /\ location = "/signup"

\* useEffect on mount: the email of the URL hash, set without validation
Mount(hashEmail) ==
  /\ ~mounted
  /\ mounted' = TRUE
  /\ values' = IF ~hashEmail.null /\ hashEmail.text # Empty
               THEN [values EXCEPT !.email = hashEmail.text]
               ELSE values
  /\ UNCHANGED <<resolved, isValid, isSubmitting, attempts, finished, signUpCalls, lastSubmit, location>>

\* a change of an input (mode: 'onChange'): the resolver runs on the new values
SetField(field, text) ==
  /\ OnScreen
  /\ ~isSubmitting
  /\ values[field] # text
  /\ values' = [values EXCEPT ![field] = text]
  /\ resolved' = Resolver(values')
  /\ isValid' = (resolved'.issues = {})
  /\ UNCHANGED <<mounted, isSubmitting, attempts, finished, signUpCalls, lastSubmit, location>>

EditName(text) == SetField("name", text)

EditEmail(text) == SetField("email", text)

EditPassword(text) == SetField("password", text)

\* SignaturePadDialog onChange: onChange(v || '') and form.trigger('signature')
ChangeSignature(text) == SetField("signature", Defined(text))

\* the form's onSubmit handler
SubmitEvent ==
  /\ OnScreen
  /\ IF FormStateIsValid
     THEN /\ signUpCalls < MaxAttempts
          /\ attempts' = Append(attempts, StartAttempt("form", values))
          /\ signUpCalls' = signUpCalls + 1
          /\ lastSubmit' = "started"
          /\ UNCHANGED <<resolved, isValid>>
     ELSE /\ resolved' = Resolver(values)
          /\ isValid' = (resolved'.issues = {})
          /\ lastSubmit' = "invalid"
          /\ UNCHANGED <<attempts, signUpCalls>>
  /\ UNCHANGED <<mounted, values, isSubmitting, finished, location>>

\* the Complete button's onClick: form.handleSubmit(onValid, onInvalid)()
ClickComplete ==
  /\ OnScreen
  /\ ~isSubmitting
  /\ resolved' = Resolver(values)
  /\ IF resolved'.issues = {}
     THEN /\ signUpCalls < MaxAttempts
          /\ attempts' = Append(attempts, StartAttempt("click", ResolverValues(values)))
          /\ signUpCalls' = signUpCalls + 1
          /\ isSubmitting' = TRUE
          /\ lastSubmit' = "started"
     ELSE /\ lastSubmit' = "invalid"
          /\ UNCHANGED <<attempts, signUpCalls, isSubmitting>>
  /\ UNCHANGED <<mounted, values, isValid, finished, location>>

\* onFormSubmit returns with the record att of what it did; for an attempt
\* started by the Complete button handleSubmit then ends the submission
Return(i, att) ==
  /\ attempts' = RemoveAt(attempts, i)
  /\ finished' = <<[att EXCEPT !.pc = "done"]>>
  /\ isSubmitting' = SubmittingAfter(att)

\* the signUp call resolves: navigate is called and awaited
SignUpResolve(i) ==
  /\ i \in DOMAIN attempts
  /\ attempts[i].pc = "signUp"
  /\ attempts' = [attempts EXCEPT ![i].outcome = "resolved",
                                  ![i].effects = <<NavigateEffect>>,
                                  ![i].pc = "navigate"]
  /\ UNCHANGED <<mounted, values, resolved, isValid, isSubmitting, finished, signUpCalls,
                 lastSubmit, location>>

\* the signUp call rejects: the catch block
SignUpReject(i, code) ==
  /\ i \in DOMAIN attempts
  /\ attempts[i].pc = "signUp"
  /\ Return(i, [attempts[i] EXCEPT !.outcome = "rejected",
                                   !.error = code,
                                   !.effects = <<DestructiveToast([code |-> code])>>])
  /\ UNCHANGED <<mounted, values, resolved, isValid, signUpCalls, lastSubmit, location>>

\* the awaited navigate resolves: the toast, then the analytics capture
NavigateResolve(i) ==
  /\ i \in DOMAIN attempts
  /\ attempts[i].pc = "navigate"
  /\ location' = "/unverified-account"
  /\ Return(i, [attempts[i] EXCEPT !.effects = @ \o AfterNavigate(attempts[i])])
  /\ UNCHANGED <<mounted, values, resolved, isValid, signUpCalls, lastSubmit>>

\* what parseError makes of a thrown value that is no AppError
ThrownByCollaborator == [code |-> "UNKNOWN_ERROR"]

\* the awaited navigate rejects: the catch block
NavigateReject(i) ==
  /\ i \in DOMAIN attempts
  /\ attempts[i].pc = "navigate"
  /\ Return(i, [attempts[i] EXCEPT !.effects = Append(@, DestructiveToast(ThrownByCollaborator))])
  /\ UNCHANGED <<mounted, values, resolved, isValid, signUpCalls, lastSubmit, location>>

\* navigate resolves and the success toast throws: the catch block
SuccessToastThrows(i) ==
  /\ i \in DOMAIN attempts
  /\ attempts[i].pc = "navigate"
  /\ location' = "/unverified-account"
  /\ Return(i, [attempts[i] EXCEPT !.effects = Append(@, DestructiveToast(ThrownByCollaborator))])
  /\ UNCHANGED <<mounted, values, resolved, isValid, signUpCalls, lastSubmit>>

\* navigate resolves, the success toast is shown and analytics.capture
\* throws: the catch block
CaptureThrows(i) ==
  /\ i \in DOMAIN attempts
  /\ attempts[i].pc = "navigate"
  /\ location' = "/unverified-account"
  /\ Return(i, [attempts[i] EXCEPT !.effects =
                                     @ \o <<SuccessToast, DestructiveToast(ThrownByCollaborator)>>])
  /\ UNCHANGED <<mounted, values, resolved, isValid, signUpCalls, lastSubmit>>

Next ==
  \/ \E h \in HashEmails : Mount(h)
  \/ \E t \in FormNames : EditName(t)
  \/ \E t \in FormEmails : EditEmail(t)
  \/ \E t \in FormPasswords : EditPassword(t)
  \/ \E t \in FormSignatures : ChangeSignature(t)
  \/ SubmitEvent
  \/ ClickComplete
  \/ \E i \in 1..MaxAttempts : SignUpResolve(i)
  \/ \E i \in 1..MaxAttempts, c \in ErrorCodes : SignUpReject(i, c)
  \/ \E i \in 1..MaxAttempts : NavigateResolve(i)

\* the collaborators keep their contracts: navigate, toast and capture return
Spec == Init /\ [][Next]_vars

\* the collaborators called after signUp may throw as well
NextFault ==
  \/ Next
  \/ \E i \in 1..MaxAttempts : NavigateReject(i)
  \/ \E i \in 1..MaxAttempts : SuccessToastThrows(i)
  \/ \E i \in 1..MaxAttempts : CaptureThrows(i)

SpecFault == Init /\ [][NextFault]_vars

---------------------------------------------------------------------------
(* The schema as a pure function: every candidate input is parsed once *)

NamedNames == {AnnLee, PaddedBo}
NamedEmails == {AnnEmail, BoEmail, NoLocalEmail, BadEmail}
NamedPasswords == {PwX9annLee, PwWithAnnLee, PwStrong}

CandidateInputs ==
  [name : Texts(MaxLen) \cup NamedNames,
   email : Texts(MaxLen) \cup NamedEmails,
   password : Texts(MaxLen) \cup NamedPasswords,
   signature : {Undefined, Defined(Empty), Defined(Sig)}]

InitV ==
  /\ values \in CandidateInputs
  /\ resolved = Unresolved
  /\ mounted = FALSE
  /\ isValid = FALSE
  /\ isSubmitting = FALSE
  /\ attempts = << >>
  /\ finished = << >>
  /\ signUpCalls = 0
  /\ lastSubmit = "none"
  /\ location = "/signup"

SafeParse ==
  /\ ~resolved.ran
  /\ resolved' = Resolver(values)
  /\ isValid' = (resolved'.issues = {})
  /\ UNCHANGED <<mounted, values, isSubmitting, attempts, finished, signUpCalls, lastSubmit, location>>

NextV == SafeParse

SpecV == InitV /\ [][NextV]_vars

\* C7: whenever the password contains the name as a case-sensitive substring,
\* or contains the part of the email before "@", parsing fails with the
\* personal-information message on the password field, whatever the other
\* checks say.
C7_PersonalInfoRejected ==
  (resolved.ran /\ (\/ Includes(values.password, values.name)
                    \/ Includes(values.password, SplitFirst(values.email, "@"))))
    => RefineIssue \in resolved.issues

\* a parse in which the password contains a non-empty name, the name, email
\* and strength checks fail too, and the message is reported
C7_Witness ==
  /\ resolved.ran
  /\ values.name # Empty
  /\ Trim(values.name) # Empty
  /\ Includes(values.password, values.name)
  /\ EmailIssues(values.email) # {}
  /\ ZPasswordSchema(values.password) # {}
  /\ RefineIssue \in resolved.issues

\* C8: while the name is empty (also after trimming) or the email has an
\* empty local part, parsing never reports the personal-information message;
\* and the message, when reported, is on the password field only.
C8_OnlyWhenBothPresent ==
  resolved.ran =>
    /\ (Trim(values.name) = Empty \/ SplitFirst(values.email, "@") = Empty)
         => \A i \in resolved.issues : i.message # MsgPersonal
    /\ \A i \in resolved.issues : i.message = MsgPersonal => i.path = "password"

\* C9 as stated: with name "Ann Lee" and email "ann@x.com", a password
\* containing "Ann Lee" fails the cross-field rule and "X9!annLee" passes it.
C9_AsStated ==
  (resolved.ran /\ values.name = AnnLee /\ values.email = AnnEmail) =>
    /\ Includes(values.password, AnnLee) => RefineIssue \in resolved.issues
    /\ values.password = PwX9annLee => RefineIssue \notin resolved.issues

\* C9 amended: with name "Ann Lee" and email "ann@x.com", a password
\* containing "Ann Lee" fails the cross-field rule; "X9!annLee" does not
\* contain "Ann Lee", but it contains the email's local part "ann" and fails
\* the rule too.
C9_Amended ==
  (resolved.ran /\ values.name = AnnLee /\ values.email = AnnEmail) =>
    /\ Includes(values.password, AnnLee) => RefineIssue \in resolved.issues
    /\ values.password = PwX9annLee =>
         /\ ~Includes(values.password, AnnLee)
         /\ Includes(values.password, SplitFirst(AnnEmail, "@"))
         /\ RefineIssue \in resolved.issues

\* the parse of name "Ann Lee", email "ann@x.com", password "X9!annLee"
C9_Witness ==
  /\ resolved.ran
  /\ values.name = AnnLee
  /\ values.email = AnnEmail
  /\ values.password = PwX9annLee
  /\ RefineIssue \in resolved.issues

---------------------------------------------------------------------------
(* The submission workflow *)

\* the attempts on record: those running and the one that returned last
Recorded == attempts \o finished

InFlight == {i \in DOMAIN attempts : attempts[i].pc = "signUp"}

\* how many effects of an attempt satisfy P, and where the first one is
CountOf(effects, P(_)) == Cardinality({k \in DOMAIN effects : P(effects[k])})

FirstOf(effects, P(_)) == CHOOSE k \in DOMAIN effects : P(effects[k]) /\ \A j \in 1..(k - 1) : ~P(effects[j])

IsNavigation(e) == e.kind = "navigate"

IsSuccessToast(e) == e.kind = "toast" /\ e.variant # "destructive"

IsDestructiveToast(e) == e.kind = "toast" /\ e.variant = "destructive"

IsCapture(e) == e.kind = "capture"

\* C1: at most one signUp call of the form is in flight at any time, on
\* every interleaving of submit events and clicks on the Complete button.
C1_AtMostOneInFlight == Cardinality(InFlight) <= 1

\* C2: a submit event or click made while the form's values fail the schema
\* makes no signUp call, and ends in the display of validation errors; this
\* holds after any edits and after the email prefill from the URL hash.
C2_InvalidNeverSubmits ==
  [][~SchemaValid(values) =>
       /\ signUpCalls' = signUpCalls
       /\ lastSubmit' # lastSubmit =>
            (lastSubmit' = "invalid" /\ resolved'.ran /\ resolved'.issues # {})]_vars

\* an invalid form, edited and prefilled from the hash, was submitted and no
\* signUp call was ever made
C2_Witness ==
  /\ lastSubmit = "invalid"
  /\ values.email = BadEmail
  /\ values.name = PaddedBo
  /\ values.password = PwStrong
  /\ ~SchemaValid(values)
  /\ resolved.issues # {}
  /\ signUpCalls = 0

\* C3: an attempt whose signUp call resolved performs exactly one navigation
\* (to /unverified-account), then exactly one success toast, then exactly one
\* capture of 'App: User Sign Up'; before navigate has settled it has made
\* the navigation and neither of the other two.
C3_SuccessEffectsInOrder ==
  \A i \in DOMAIN Recorded :
    LET e == Recorded[i].effects IN
    Recorded[i].outcome = "resolved" =>
      /\ CountOf(e, IsNavigation) = 1
      /\ e[FirstOf(e, IsNavigation)].to = "/unverified-account"
      /\ Recorded[i].pc # "done" => (CountOf(e, IsSuccessToast) = 0 /\ CountOf(e, IsCapture) = 0)
      /\ Recorded[i].pc = "done" =>
           /\ CountOf(e, IsSuccessToast) = 1
           /\ CountOf(e, IsCapture) = 1
           /\ e[FirstOf(e, IsCapture)].event = "App: User Sign Up"
           /\ FirstOf(e, IsNavigation) < FirstOf(e, IsSuccessToast)
           /\ FirstOf(e, IsSuccessToast) < FirstOf(e, IsCapture)

\* an attempt whose signUp call resolved has run to its end
C3_Witness ==
  \E i \in DOMAIN finished :
    /\ finished[i].outcome = "resolved"
    /\ finished[i].pc = "done"
    /\ Len(finished[i].effects) = 3

\* C4: an attempt ends as a success or as a failure, never both: it shows a
\* destructive toast only when its signUp call was rejected, also when
\* navigate, the success toast or the capture throws after signUp resolved.
C4_SingleOutcome ==
  \A i \in DOMAIN Recorded :
    /\ CountOf(Recorded[i].effects, IsDestructiveToast) > 0 => Recorded[i].outcome = "rejected"
    /\ Recorded[i].outcome = "resolved" => CountOf(Recorded[i].effects, IsDestructiveToast) = 0

\* the text the table gives for a code, written out
C5_Expected(code) ==
  CASE code = "ALREADY_EXISTS" ->
         "User with this email already exists. Please use a different email address."
    [] code = "SIGNUP_DISABLED" -> "Signups are disabled."
    [] OTHER ->
         "We were unable to create your account. Please review the information you provided and try again."

\* C5: a rejected signUp call ends its attempt with exactly one effect, one
\* destructive toast whose description is the table's text for the parsed
\* code (the INVALID_REQUEST text for a code outside the table), never
\* empty; the attempt is over (nothing propagates) and the step that handles
\* the rejection makes no further signUp call.
C5_RejectionNotified ==
  /\ [](\A i \in DOMAIN Recorded :
          Recorded[i].outcome = "rejected" =>
            /\ Recorded[i].pc = "done"
            /\ Len(Recorded[i].effects) = 1
            /\ IsDestructiveToast(Recorded[i].effects[1])
            /\ Recorded[i].effects[1].title = "An error occurred"
            /\ Recorded[i].effects[1].description = C5_Expected(Recorded[i].error)
            /\ Recorded[i].effects[1].description # "")
  /\ [][(Len(attempts') < Len(attempts) /\ finished'[1].outcome = "rejected")
          => (signUpCalls' = signUpCalls /\ Len(attempts') = Len(attempts) - 1)]_vars

\* a signUp call was rejected with a code that is no key of the table
C5_Witness ==
  \E i \in DOMAIN finished :
    /\ finished[i].outcome = "rejected"
    /\ finished[i].error = "UNKNOWN_ERROR"
    /\ finished[i].effects[1].description = MsgInvalidRequest

\* C6 as stated: the signUp call is the only place an attempt is suspended,
\* so an attempt whose signUp call has settled is over, and with every
\* attempt over the submit action is enabled again.
C6_AsStated ==
  /\ \A i \in DOMAIN Recorded : Recorded[i].outcome # "pending" => Recorded[i].pc = "done"
  /\ (\A i \in DOMAIN Recorded : Recorded[i].pc = "done") => ~isSubmitting

\* C6 amended: an attempt is suspended at the signUp call and, when that
\* resolved, at the awaited navigate, nowhere else: a rejected attempt is
\* over at once, a resolved one is over or awaiting navigate; isSubmitting is
\* true exactly while an attempt started by the Complete button is not over,
\* so the submit action is enabled again once it is.
C6_Amended ==
  /\ \A i \in DOMAIN Recorded :
       /\ Recorded[i].outcome = "pending" <=> Recorded[i].pc = "signUp"
       /\ Recorded[i].outcome = "rejected" => Recorded[i].pc = "done"
       /\ Recorded[i].outcome = "resolved" => Recorded[i].pc \in {"navigate", "done"}
  /\ isSubmitting <=> \E i \in DOMAIN Recorded : Recorded[i].via = "click" /\ Recorded[i].pc # "done"

\* an attempt started by the Complete button went through the awaited
\* navigate and is over, no attempt is running, and the button is enabled
C6_Witness ==
  /\ ~isSubmitting
  /\ attempts = << >>
  /\ \E i \in DOMAIN finished :
       finished[i].via = "click" /\ finished[i].pc = "done" /\ finished[i].outcome = "resolved"

\* the field values a payload was built from, as far as the payload tells
C10_AsValues(payload) ==
  [name |-> payload.name, email |-> payload.email, password |-> payload.password,
   signature |-> Defined(payload.signature.text)]

\* C10: every signUp call carries a valid SignupInput: a non-empty trimmed
\* name, and a signature that is null exactly when the form's is empty; and
\* both submit paths send the same payload for the same values, so that
\* every payload sent is the one handleSubmit's resolved values give.
C10_PayloadValid ==
  \A i \in DOMAIN Recorded :
    LET payload == Recorded[i].payload IN
    /\ payload.name # Empty
    /\ payload.name = Trim(payload.name)
    /\ payload.signature.null <=> payload.signature.text = Empty
    /\ SchemaValid(C10_AsValues(payload))
    /\ payload = SignUpPayload(ResolverValues(C10_AsValues(payload)))

====
